---- MODULE Spec2Model ----
(***************************************************************************)
(* Request pipeline of the Task Master Pro Python SDK                      *)
(* (packages/python-sdk/src/taskmaster/client.py and exceptions/).         *)
(*                                                                         *)
(* One client, constructed with a retry configuration, issues one          *)
(* operation at a time.  Each HTTP attempt is answered by the server with  *)
(* a response or fails at the transport level; the mounted HTTPAdapter     *)
(* applies the urllib3 Retry policy configured in _setup_session, and the  *)
(* terminal outcome goes through _make_request, _handle_response_status    *)
(* and the operation's own unwrapping of the envelope.                     *)
(***************************************************************************)
EXTENDS Integers, Sequences, FiniteSets, TLC

(* ------------------------------ bounds --------------------------------- *)

\* max_retries is drawn from 0..MaxRetriesBound at construction
MaxRetriesBound == 3

\* seconds announced by a Retry-After header, when the server sends one
RetryAfterSecs == 7

(* ------------------------- construction inputs ------------------------- *)

(* ---------------------------- retry policy ----------------------------- *)

\* a forcelist that also lists 404
status_forcelist_with_404 == {404, 429, 500, 502, 503, 504}

\* a forcelist that leaves out 500
status_forcelist_without_500 == {429, 502, 503, 504}

\* Retry(status_forcelist=[429, 500, 502, 503, 504])
status_forcelist == {429, 500, 502, 503, 504}

\* Retry(allowed_methods=["GET", "POST", "PUT", "PATCH", "DELETE"])
allowed_methods == {"GET", "POST", "PUT", "PATCH", "DELETE"}

\* Retry.RETRY_AFTER_STATUS_CODES, left at the library default
RETRY_AFTER_STATUS_CODES == {413, 429, 503}

\* Retry.backoff_max, left at the library default (seconds)
backoff_max == 120

(* ----------------------------- operations ------------------------------ *)

ListOps   == {"list_tasks", "list_subtasks"}
GetOps    == {"get_task", "get_subtask"}
CreateOps == {"create_task", "create_subtask"}
UpdateOps == {"update_task", "update_subtask"}
DeleteOps == {"delete_task", "delete_subtask"}

Operations == ListOps \cup GetOps \cup CreateOps \cup UpdateOps \cup DeleteOps

\* the verb each operation hands to _make_request
Method(o) ==
    IF o \in ListOps \cup GetOps THEN "GET"
    ELSE IF o \in CreateOps THEN "POST"
    ELSE IF o \in UpdateOps THEN "PATCH"
    ELSE "DELETE"

(* --------------------------- server responses -------------------------- *)

OkStatuses  == {200, 204}
ErrStatuses == {400, 401, 403, 404, 409, 413, 429, 500, 501, 502, 503, 504}

\* response.reason
Reason(s) ==
    CASE s = 200 -> "OK"
      [] s = 204 -> "No Content"
      [] s = 400 -> "Bad Request"
      [] s = 401 -> "Unauthorized"
      [] s = 403 -> "Forbidden"
      [] s = 404 -> "Not Found"
      [] s = 409 -> "Conflict"
      [] s = 413 -> "Payload Too Large"
      [] s = 429 -> "Too Many Requests"
      [] s = 500 -> "Internal Server Error"
      [] s = 501 -> "Not Implemented"
      [] s = 502 -> "Bad Gateway"
      [] s = 503 -> "Service Unavailable"
      [] s = 504 -> "Gateway Timeout"
      [] OTHER   -> "Unknown"

\* shapes of the envelope's data field
DataKinds == {"absent", "null", "string", "number", "object_valid",
              "object_invalid", "list_empty", "list_valid",
              "list_with_invalid"}

\* a response body: empty, text that is not JSON, a JSON value that is not
\* an object (null, array), or a JSON object with some of the fields the
\* client reads
NonObjectForms == {"empty", "text", "null", "array"}

NonObjectBody(f) ==
    [form |-> f, message |-> "absent", code |-> "absent", data |-> "absent",
     status |-> "absent", error |-> "absent"]

ErrBodies ==
    { NonObjectBody(f) : f \in NonObjectForms } \cup
    [form : {"object"}, message : {"absent", "Task not found"},
     code : {"absent", "E_CUSTOM"}, data : {"absent"},
     status : {"error"}, error : {"absent"}]

OkBodies ==
    { NonObjectBody(f) : f \in NonObjectForms } \cup
    [form : {"object"}, message : {"absent"}, code : {"absent"},
     data : DataKinds,
     status : {"ok"}, error : {"absent"}]

\* the responses the server may give to one attempt; a Retry-After header
\* is sent only with the statuses that define it for the retry policy
Responses ==
    { [status |-> s, retry_after |-> ra, body |-> b] :
        s \in OkStatuses, ra \in {FALSE}, b \in OkBodies } \cup
    { [status |-> s, retry_after |-> ra, body |-> b] :
        s \in ErrStatuses, ra \in {FALSE}, b \in ErrBodies } \cup
    { [status |-> s, retry_after |-> ra, body |-> b] :
        s \in RETRY_AFTER_STATUS_CODES, ra \in {TRUE}, b \in ErrBodies }

NoResponse ==
    [status |-> 0, retry_after |-> FALSE, body |-> NonObjectBody("empty")]

(* ---------------------------- error taxonomy --------------------------- *)

\* class -> direct base class, as declared in exceptions/ (and, for the
\* errors that are not the SDK's, in the libraries that raise them)
\* a hierarchy in which every error kind derives from TaskMasterError
\* directly
Parent_flat ==
    [c \in {"TaskMasterError", "AuthenticationError", "TokenExpiredError",
            "InvalidTokenError", "MissingCredentialsError", "APIError",
            "BadRequestError", "NotFoundError", "ConflictError",
            "ServerError", "RateLimitError", "ServiceUnavailableError",
            "ValidationError"} |->
        IF c = "TaskMasterError" THEN "Exception" ELSE "TaskMasterError"]

Parent ==
    [c \in {"TaskMasterError", "AuthenticationError", "TokenExpiredError",
            "InvalidTokenError", "MissingCredentialsError", "APIError",
            "BadRequestError", "NotFoundError", "ConflictError",
            "ServerError", "RateLimitError", "ServiceUnavailableError",
            "ValidationError",
            "requests.RequestException", "requests.ConnectionError",
            "requests.RetryError", "requests.JSONDecodeError",
            "pydantic.ValidationError", "AttributeError", "TypeError",
            "ValueError", "Exception",
            "jwt.PyJWTError", "jwt.InvalidTokenError", "jwt.DecodeError",
            "jwt.InvalidSignatureError", "jwt.ExpiredSignatureError",
            "jwt.InvalidAlgorithmError", "jwt.InvalidKeyError"} |->
        CASE c \in {"AuthenticationError", "APIError", "ValidationError"}
                -> "TaskMasterError"
          [] c \in {"TokenExpiredError", "InvalidTokenError",
                    "MissingCredentialsError"}
                -> "AuthenticationError"
          [] c \in {"BadRequestError", "NotFoundError", "ConflictError",
                    "ServerError", "RateLimitError",
                    "ServiceUnavailableError"}
                -> "APIError"
          [] c \in {"requests.ConnectionError", "requests.RetryError",
                    "requests.JSONDecodeError"}
                -> "requests.RequestException"
          [] c = "pydantic.ValidationError" -> "ValueError"
          [] c \in {"jwt.InvalidTokenError", "jwt.InvalidKeyError"}
                -> "jwt.PyJWTError"
          [] c \in {"jwt.DecodeError", "jwt.ExpiredSignatureError",
                    "jwt.InvalidAlgorithmError"}
                -> "jwt.InvalidTokenError"
          [] c = "jwt.InvalidSignatureError" -> "jwt.DecodeError"
          [] OTHER -> "Exception"]

RECURSIVE IsA(_, _)
\* isinstance(<error of class c>, base)
IsA(c, base) ==
    IF c = base THEN TRUE
    ELSE IF c = "Exception" THEN FALSE
    ELSE IsA(Parent[c], base)

\* TaskMasterError.__init__(message, code=None, status_code=None);
\* a status_code of 0 and a code of "None" stand for Python's None
TaskMasterError(message) ==
    [exc |-> "TaskMasterError", message |-> message, code |-> "None",
     status_code |-> 0]

\* APIError.__init__(message, status_code, code, response_data)
APIError(message, status_code, code) ==
    [exc |-> "APIError", message |-> message, code |-> code,
     status_code |-> status_code]

\* BadRequestError.__init__
BadRequestError(message) ==
    [APIError(message, 400, "BAD_REQUEST") EXCEPT !.exc = "BadRequestError"]

\* NotFoundError.__init__
NotFoundError(message) ==
    [APIError(message, 404, "NOT_FOUND") EXCEPT !.exc = "NotFoundError"]

\* ConflictError.__init__
ConflictError(message) ==
    [APIError(message, 409, "CONFLICT") EXCEPT !.exc = "ConflictError"]

\* ServerError.__init__
ServerError(message) ==
    [APIError(message, 500, "SERVER_ERROR") EXCEPT !.exc = "ServerError"]

\* RateLimitError.__init__
RateLimitError(message) ==
    [APIError(message, 429, "RATE_LIMITED") EXCEPT !.exc = "RateLimitError"]

\* ServiceUnavailableError.__init__
ServiceUnavailableError(message) ==
    [APIError(message, 503, "SERVICE_UNAVAILABLE")
        EXCEPT !.exc = "ServiceUnavailableError"]

\* AuthenticationError.__init__
AuthenticationError(message) ==
    [exc |-> "AuthenticationError", message |-> message,
     code |-> "AUTH_ERROR", status_code |-> 401]

\* TokenExpiredError.__init__
TokenExpiredError(message) ==
    [AuthenticationError(message) EXCEPT !.exc = "TokenExpiredError",
                                         !.code = "TOKEN_EXPIRED"]

\* InvalidTokenError.__init__
InvalidTokenError(message) ==
    [AuthenticationError(message) EXCEPT !.exc = "InvalidTokenError",
                                         !.code = "INVALID_TOKEN"]

\* MissingCredentialsError.__init__
MissingCredentialsError(message) ==
    [AuthenticationError(message) EXCEPT !.exc = "MissingCredentialsError",
                                         !.code = "MISSING_CREDENTIALS"]

\* ValidationError.__init__
ValidationError(message) ==
    [TaskMasterError(message) EXCEPT !.exc = "ValidationError",
                                     !.code = "VALIDATION_ERROR"]

\* the error kinds of exceptions/
ErrorKinds ==
    {"TaskMasterError", "AuthenticationError", "TokenExpiredError",
     "InvalidTokenError", "MissingCredentialsError", "APIError",
     "BadRequestError", "NotFoundError", "ConflictError", "ServerError",
     "RateLimitError", "ServiceUnavailableError", "ValidationError"}

\* the constructor of kind applied to a message; status_code and code are
\* the further arguments of APIError and ignored by the other kinds
NewError(kind, message, status_code, code) ==
    CASE kind = "TaskMasterError" -> TaskMasterError(message)
      [] kind = "AuthenticationError" -> AuthenticationError(message)
      [] kind = "TokenExpiredError" -> TokenExpiredError(message)
      [] kind = "InvalidTokenError" -> InvalidTokenError(message)
      [] kind = "MissingCredentialsError" -> MissingCredentialsError(message)
      [] kind = "APIError" -> APIError(message, status_code, code)
      [] kind = "BadRequestError" -> BadRequestError(message)
      [] kind = "NotFoundError" -> NotFoundError(message)
      [] kind = "ConflictError" -> ConflictError(message)
      [] kind = "ServerError" -> ServerError(message)
      [] kind = "RateLimitError" -> RateLimitError(message)
      [] kind = "ServiceUnavailableError" -> ServiceUnavailableError(message)
      [] OTHER -> ValidationError(message)

\* an error raised by Python or a library, outside exceptions/: it has no
\* code and no status_code attribute
ForeignError(class) ==
    [exc |-> class, message |-> "foreign", code |-> "None", status_code |-> 0]

(* ------------------------ _handle_response_status ---------------------- *)

\* response.json() succeeds
CanParseJson(body) == body.form \notin {"empty", "text"}

\* what _handle_response_status does with a response: nothing, or the
\* error it raises
Raise(e) == [raised |-> TRUE, err |-> e]
Pass     == [raised |-> FALSE, err |-> ForeignError("Exception")]

_handle_response_status(r) ==
    IF r.status < 400 THEN Pass
    ELSE
      \* error_data = response.json(), {} on any failure to parse
      LET is_object == CanParseJson(r.body) /\ r.body.form = "object"
          degraded  == ~CanParseJson(r.body)
          message   == IF is_object /\ r.body.message # "absent"
                       THEN r.body.message ELSE Reason(r.status)
          code      == IF is_object /\ r.body.code # "absent"
                       THEN r.body.code ELSE "UNKNOWN"
      IN  IF ~is_object /\ ~degraded
          \* error_data.get on a list, a string, a number or None
          THEN Raise(ForeignError("AttributeError"))
          ELSE IF r.status = 400 THEN Raise(BadRequestError(message))
          ELSE IF r.status = 401 THEN Raise(AuthenticationError(message))
          ELSE IF r.status = 404 THEN Raise(NotFoundError(message))
          ELSE IF r.status = 409 THEN Raise(ConflictError(message))
          ELSE IF r.status = 429 THEN Raise(RateLimitError(message))
          ELSE IF r.status >= 500
               THEN IF r.status = 503
                    THEN Raise(ServiceUnavailableError(message))
                    ELSE Raise(ServerError(message))
          ELSE Raise(APIError(message, r.status, code))

(* ------------------------- urllib3 Retry policy ------------------------ *)
(* The policy object built in _setup_session: Retry(total=max_retries,     *)
(* backoff_factor=retry_backoff, status_forcelist, allowed_methods), every *)
(* other parameter at its default (raise_on_status=True,                   *)
(* respect_retry_after_header=True, no jitter).                            *)

\* Retry.is_retry(method, status_code, has_retry_after) with `total` left
is_retry(method, status_code, has_retry_after, total_left) ==
    IF method \notin allowed_methods THEN FALSE
    ELSE IF status_code \in status_forcelist THEN TRUE
    ELSE /\ total_left # 0
         /\ has_retry_after
         /\ status_code \in RETRY_AFTER_STATUS_CODES

\* a policy that allows one attempt more before giving up
is_exhausted_one_late(total_left) == total_left < 0 - 1

\* Retry.is_exhausted() after Retry.increment() has decremented total
is_exhausted(total_left) == total_left < 0

Min(a, b) == IF a < b THEN a ELSE b

\* a backoff that already waits before the first retry
get_backoff_time_from_first(backoff_factor, n) ==
    Min(backoff_max, backoff_factor * (2 ^ (n - 1)))

\* Retry.get_backoff_time() once n consecutive attempts have failed
get_backoff_time(backoff_factor, n) ==
    IF n <= 1 THEN 0
    ELSE Min(backoff_max, backoff_factor * (2 ^ (n - 1)))

\* Retry.sleep(response): the Retry-After header of the response when
\* there is one, the backoff time otherwise
sleep(has_retry_after, backoff_factor, n) ==
    IF has_retry_after
    THEN [n |-> n, secs |-> RetryAfterSecs, by_header |-> TRUE]
    ELSE [n |-> n, secs |-> get_backoff_time(backoff_factor, n),
          by_header |-> FALSE]

NoSleep == [n |-> 0, secs |-> 0, by_header |-> FALSE]

(* ------------------------------ results -------------------------------- *)

NoError == ForeignError("none")

NoResult == [kind |-> "none", err |-> NoError, value |-> "none",
             cause |-> "none"]

\* the operation returned v
Returned(v) == [kind |-> "return", err |-> NoError, value |-> v,
                cause |-> "none"]

\* the operation raised e (cause: the library error that e replaced)
Raised(e, cause) == [kind |-> "raise", err |-> e, value |-> "none",
                     cause |-> cause]

\* _make_request, lines 155-157: a requests.exceptions.RequestException
\* raised inside the try block is replaced by a TaskMasterError
WrapRequestException(class) ==
    IF IsA(class, "requests.RequestException")
    THEN Raised(TaskMasterError("Request failed"), class)
    ELSE Raised(ForeignError(class), "none")

\* an unwrapping whose list operations parse whatever data holds
Unwrap_list_unchecked(o, p) ==
    IF o \in DeleteOps THEN Returned("True")
    ELSE IF p.form # "object"
         THEN Raised(ForeignError("AttributeError"), "none")
    ELSE IF o \in ListOps
         THEN CASE p.data \in {"list_valid", "list_empty"}
                     -> Returned(IF p.data = "list_valid" THEN "entity_list"
                                 ELSE "empty_list")
                [] p.data = "list_with_invalid"
                     -> Raised(ForeignError("pydantic.ValidationError"), "none")
                [] p.data = "absent" -> Returned("empty_list")
                [] OTHER -> Raised(ForeignError("TypeError"), "none")
    ELSE CASE p.data = "object_valid" -> Returned("entity")
           [] p.data \in {"absent", "object_invalid"}
                -> Raised(ForeignError("pydantic.ValidationError"), "none")
           [] OTHER -> Raised(ForeignError("TypeError"), "none")

\* the unwrapping each operation applies to the parsed body p
Unwrap(o, p) ==
    IF o \in DeleteOps THEN Returned("True")
    ELSE IF p.form # "object"
         \* response.get on a list or on None
         THEN Raised(ForeignError("AttributeError"), "none")
    ELSE IF o \in ListOps
         THEN CASE p.data = "list_valid" -> Returned("entity_list")
                [] p.data = "list_with_invalid"
                     -> Raised(ForeignError("pydantic.ValidationError"), "none")
                [] OTHER -> Returned("empty_list")
    ELSE \* get, create, update: cls(**data)
         CASE p.data = "object_valid" -> Returned("entity")
           [] p.data \in {"absent", "object_invalid"}
                -> Raised(ForeignError("pydantic.ValidationError"), "none")
           [] OTHER -> Raised(ForeignError("TypeError"), "none")

\* a pipeline that fails when the envelope says error
Finish_consulting_envelope(o, r, j) ==
    LET hs == _handle_response_status(r)
    IN  IF hs.raised THEN Raised(hs.err, "none")
        ELSE IF ~CanParseJson(r.body) THEN WrapRequestException(j)
        ELSE IF r.body.status = "error"
             THEN Raised(APIError("envelope", r.status, "UNKNOWN"), "none")
        ELSE Unwrap(o, r.body)

\* _make_request on the response r that session.request returned, followed
\* by the operation's unwrapping; j is what response.json() raises when it
\* fails
Finish(o, r, j) ==
    LET hs == _handle_response_status(r)
    IN  IF hs.raised THEN Raised(hs.err, "none")
        ELSE IF ~CanParseJson(r.body) THEN WrapRequestException(j)
        ELSE Unwrap(o, r.body)

(* ---------------------------- domain model ----------------------------- *)
(* models/task.py, models/subtask.py and models/base.py: pydantic models   *)
(* built from a raw dictionary by from_api_response.                       *)

\* subtasks a payload may carry, in every order of their statuses
MaxSubtasks == 4

\* subtasks a payload may carry
ManySubtasks == 20

\* class TaskStatus(str, Enum)
TaskStatus == {"pending", "in-progress", "done", "deferred", "cancelled",
               "blocked"}

\* class TaskPriority(str, Enum)
TaskPriority == {"low", "medium", "high", "critical"}

\* the fields declared by Task and by SubTask
TaskFields == {"id", "title", "description", "status", "priority",
               "created_at", "updated_at", "subtasks", "project_id",
               "account_id", "metadata"}

SubTaskFields == {"id", "parent_id", "title", "description", "status",
                  "created_at", "updated_at", "metadata"}

FieldsOf(cls) == IF cls = "Task" THEN TaskFields ELSE SubTaskFields

RequiredOf(cls) ==
    IF cls = "Task" THEN {"id", "title", "created_at", "updated_at"}
    ELSE {"id", "parent_id", "title", "created_at", "updated_at"}

\* status strings a subtask carries in the payloads tried ("archived" is
\* not a TaskStatus)
SubTaskStatusValues == {"done", "pending", "archived"}

\* lengths of the titles tried
TitleLens == {0, 1, 255, 256}

\* the subtask lists tried: the status of each subtask, in order; every
\* list up to MaxSubtasks, and up to ManySubtasks the lists of done
\* subtasks followed by pending ones
SubtaskSeqs ==
    UNION { [1..n -> SubTaskStatusValues] : n \in 0..MaxSubtasks } \cup
    { [i \in 1..n |-> IF i <= c THEN "done" ELSE "pending"] :
        n \in 1..ManySubtasks, c \in 0..ManySubtasks }

\* a raw dictionary: the declared fields it has (present), whether it has
\* a field the model does not declare (extra), and the values of the
\* fields that validation looks at
Payload(cls, present, title_len, status, priority, subtasks, extra) ==
    [cls |-> cls, present |-> present, title_len |-> title_len,
     status |-> status, priority |-> priority, subtasks |-> subtasks,
     extra |-> extra]

\* the sets of declared fields tried: all of them, all but one, only the
\* required ones
PresentSets(cls) ==
    {FieldsOf(cls), RequiredOf(cls)} \cup
    { FieldsOf(cls) \ {f} : f \in FieldsOf(cls) }

TaskPayloads ==
    { Payload("Task", TaskFields, 1, st, "high", q, FALSE) :
        st \in (TaskStatus \cup {"invalid_status"}), q \in SubtaskSeqs } \cup
    { Payload("Task", ps, l, "done", pr, <<>>, x) :
        ps \in PresentSets("Task"), l \in TitleLens,
        pr \in (TaskPriority \cup {"invalid_priority"}), x \in BOOLEAN }

SubTaskPayloads ==
    { Payload("SubTask", ps, l, st, "medium", <<>>, x) :
        ps \in PresentSets("SubTask"), l \in TitleLens,
        st \in SubTaskStatusValues \cup {"in-progress", "invalid_status"},
        x \in BOOLEAN }

NoPayload == Payload("none", {}, 0, "none", "none", <<>>, FALSE)

\* an entity: the validated field values, and given, the fields whose
\* value is not None
Entity(cls, title_len, status, priority, subtasks, given) ==
    [cls |-> cls, title_len |-> title_len, status |-> status,
     priority |-> priority, subtasks |-> subtasks, given |-> given]

NoEntity == Entity("none", 0, "none", "none", <<>>, {})

\* the fields that have a default other than None
DefaultedFields(cls) ==
    IF cls = "Task" THEN {"status", "priority", "subtasks"} ELSE {"status"}

\* a validation that checks the required fields and the title only
InvalidFields_without_enums(p) ==
    (RequiredOf(p.cls) \ p.present) \cup
    (IF "title" \in p.present /\ (p.title_len < 1 \/ p.title_len > 255)
     THEN {"title"} ELSE {})

\* pydantic's validation in the constructor: the fields it rejects.  Fields
\* that are not declared are ignored (extra is not configured).
InvalidFields(p) ==
    (RequiredOf(p.cls) \ p.present) \cup
    (IF "title" \in p.present /\ (p.title_len < 1 \/ p.title_len > 255)
     THEN {"title"} ELSE {}) \cup
    (IF /\ p.cls = "Task"
        /\ "status" \in p.present
        /\ p.status \notin TaskStatus
     THEN {"status"} ELSE {}) \cup
    (IF /\ p.cls = "Task"
        /\ "priority" \in p.present
        /\ p.priority \notin TaskPriority
     THEN {"priority"} ELSE {})

\* a parse that replaces a status outside TaskStatus by the default
from_api_response_defaulting_unknown_status(p) ==
    IF InvalidFields(p) # {}
    THEN [entity |-> NoEntity, err |-> "pydantic.ValidationError"]
    ELSE [entity |->
            Entity(p.cls, p.title_len,
                   IF "status" \in p.present /\ p.status \in TaskStatus
                   THEN p.status ELSE "pending",
                   IF p.cls # "Task" THEN "none"
                   ELSE IF "priority" \in p.present THEN p.priority
                   ELSE "medium",
                   IF p.cls = "Task" /\ "subtasks" \in p.present
                   THEN p.subtasks ELSE <<>>,
                   p.present \cup DefaultedFields(p.cls)),
          err |-> "none"]

\* BaseModel.from_api_response: the entity, or the error the constructor raises
from_api_response(p) ==
    IF InvalidFields(p) # {}
    THEN [entity |-> NoEntity, err |-> "pydantic.ValidationError"]
    ELSE [entity |->
            Entity(p.cls, p.title_len,
                   IF "status" \in p.present THEN p.status ELSE "pending",
                   IF p.cls # "Task" THEN "none"
                   ELSE IF "priority" \in p.present THEN p.priority
                   ELSE "medium",
                   IF p.cls = "Task" /\ "subtasks" \in p.present
                   THEN p.subtasks ELSE <<>>,
                   p.present \cup DefaultedFields(p.cls)),
          err |-> "none"]

\* elements a list in a response may have
MaxListLen == 3

\* the elements tried in the lists of list_tasks and of list_subtasks: two
\* valid ones that differ and one that fails validation
ListElements(cls) ==
    { Payload(cls, FieldsOf(cls), 1, "pending", "medium", <<>>, FALSE),
      Payload(cls, FieldsOf(cls), 255, "done", "medium", <<>>, TRUE),
      Payload(cls, FieldsOf(cls), 0, "done", "medium", <<>>, FALSE) }

NoListing == [data |-> <<>>, done |-> FALSE, value |-> <<>>, err |-> "none"]

\* a comprehension that leaves out the elements failing validation
ParseList_skipping_invalid(data) ==
    LET valid == SelectSeq(data, LAMBDA p : from_api_response(p).err = "none")
    IN  [value |-> [i \in 1..Len(valid) |-> from_api_response(valid[i]).entity],
         err   |-> "none"]

\* [cls.from_api_response(x) for x in data]: the entities in the order of
\* data, or the error of the first element that fails
ParseList(data) ==
    LET failing == { i \in 1..Len(data) : from_api_response(data[i]).err # "none" }
    IN  IF failing # {}
        THEN [value |-> <<>>,
              err   |-> from_api_response(
                          data[CHOOSE i \in failing :
                                 \A j \in failing : i <= j]).err]
        ELSE [value |-> [i \in 1..Len(data) |->
                           from_api_response(data[i]).entity],
              err   |-> "none"]

\* a value of a payload or of a dumped entity: its Python type and its
\* text
Value(type, val) == [type |-> type, val |-> val]

\* the timestamp the payloads carry, as the server writes it and as the
\* datetime that pydantic parses from it prints
IsoTimestamp == "2024-01-01T00:00:00Z"

\* str to datetime, as pydantic validates a datetime field
ParseDatetime(v) ==
    IF v.val = IsoTimestamp THEN Value("datetime", "2024-01-01 00:00:00+00:00")
    ELSE Value("datetime", "other")

\* the value the payload p has for its field f: JSON strings, a list, an
\* object
PayloadValue(p, f) ==
    CASE f = "title" -> Value("str", ToString(p.title_len))
      [] f = "status" -> Value("str", p.status)
      [] f = "priority" -> Value("str", p.priority)
      [] f \in {"created_at", "updated_at"} -> Value("str", IsoTimestamp)
      [] f = "subtasks" -> Value("list", ToString(Len(p.subtasks)))
      [] f = "metadata" -> Value("dict", "metadata")
      [] OTHER -> Value("str", f)

\* the value the entity e holds for its field f
FieldValue(e, f) ==
    CASE f = "title" -> Value("str", ToString(e.title_len))
      [] f = "status" ->
           Value(IF e.cls = "Task" THEN "TaskStatus" ELSE "str", e.status)
      [] f = "priority" -> Value("TaskPriority", e.priority)
      [] f \in {"created_at", "updated_at"}
           -> ParseDatetime(Value("str", IsoTimestamp))
      [] f = "subtasks" -> Value("list", ToString(Len(e.subtasks)))
      [] f = "metadata" -> Value("dict", "metadata")
      [] OTHER -> Value("str", f)

\* BaseModel.to_api_request: model_dump(by_alias=True, exclude_none=True),
\* the fields that are not None with the values the entity holds
to_api_request(e) == [f \in e.given |-> FieldValue(e, f)]

\* SubTask.is_completed, on the status of the subtask
SubTask_is_completed(status) == status = "done"

\* Task.is_completed
is_completed(e) == e.status = "done"

\* a predicate that also counts blocked tasks as active
is_active_with_blocked(e) == e.status \in {"pending", "in-progress", "blocked"}

\* Task.is_active
is_active(e) == e.status \in {"pending", "in-progress"}

\* Task.is_blocked
is_blocked(e) == e.status = "blocked"

\* Task.get_completed_subtask_count
get_completed_subtask_count(e) ==
    Cardinality({ i \in 1..Len(e.subtasks) :
                    SubTask_is_completed(e.subtasks[i]) })

\* a Python float is an IEEE 754 binary64: a significand of 53 bits, the
\* first of them 1, kept here as the 52 bits after it in four limbs of
\* LimbBits bits, the most significant first
LimbBits == 13

Limb == 2^LimbBits

\* a float that is not negative: its value is 0 when zero holds and
\* (1 + (frac[1] * Limb^3 + frac[2] * Limb^2 + frac[3] * Limb + frac[4])
\*      / Limb^4) * 2^exp otherwise
Float(zero, frac, exp) == [zero |-> zero, frac |-> frac, exp |-> exp]

FloatZero == Float(TRUE, <<0, 0, 0, 0>>, 0)

\* the largest k with q * 2^k <= p, for p >= q
RECURSIVE Log2Floor(_, _)
Log2Floor(p, q) == IF 2 * q > p THEN 0 ELSE 1 + Log2Floor(p, 2 * q)

\* the smallest k with p * 2^k >= q, for p >= 1
RECURSIVE Log2Ceil(_, _)
Log2Ceil(p, q) == IF p >= q THEN 0 ELSE 1 + Log2Ceil(2 * p, q)

\* round to nearest, ties to even: guard is the first bit dropped and
\* sticky tells whether any later one is set
RoundNearestEven(frac, guard, sticky, exp) ==
    IF guard = 1 /\ (sticky \/ frac[4] % 2 = 1)
    THEN LET n4 == frac[4] + 1
             n3 == frac[3] + n4 \div Limb
             n2 == frac[2] + n3 \div Limb
             n1 == frac[1] + n2 \div Limb
         IN  Float(FALSE, <<n1 % Limb, n2 % Limb, n3 % Limb, n4 % Limb>>,
                   exp + n1 \div Limb)
    ELSE Float(FALSE, frac, exp)

\* the long division num / den for den <= num < 2 * den: the four limbs of
\* the quotient after its leading 1, and the remainder
LongDivision(num, den) ==
    LET t1 == (num - den) * Limb
        t2 == (t1 % den) * Limb
        t3 == (t2 % den) * Limb
        t4 == (t3 % den) * Limb
    IN  [frac |-> <<t1 \div den, t2 \div den, t3 \div den, t4 \div den>>,
         rest |-> t4 % den]

\* the quotient p / q scaled into [1, 2): p * 2^down / (q * 2^up)
Scaled(p, q) ==
    LET up   == IF p >= q THEN Log2Floor(p, q) ELSE 0
        down == IF p >= q THEN 0 ELSE Log2Ceil(p, q)
    IN  [num |-> p * 2^down, den |-> q * 2^up, exp |-> up - down]

\* int / int (true division) for 0 <= p and 1 <= q: the float nearest to
\* the quotient
TrueDiv(p, q) ==
    IF p = 0 THEN FloatZero
    ELSE LET sc == Scaled(p, q)
             d  == LongDivision(sc.num, sc.den)
             g  == IF 2 * d.rest >= sc.den THEN 1 ELSE 0
         IN  RoundNearestEven(d.frac, g, 2 * d.rest - g * sc.den # 0, sc.exp)

\* float * int for a small int k >= 1 (the int is converted exactly): the
\* float nearest to the product
MulInt(x, k) ==
    IF x.zero THEN FloatZero
    ELSE LET t4  == x.frac[4] * k
             t3  == x.frac[3] * k + t4 \div Limb
             t2  == x.frac[2] * k + t3 \div Limb
             t1  == x.frac[1] * k + t2 \div Limb
             top == k + t1 \div Limb
             s   == Log2Floor(top, 1)
             low == 2^s
             up  == 2^(LimbBits - s)
             p1  == t1 % Limb
             p2  == t2 % Limb
             p3  == t3 % Limb
             p4  == t4 % Limb
             frac == <<(top - low) * up + p1 \div low,
                       (p1 % low) * up + p2 \div low,
                       (p2 % low) * up + p3 \div low,
                       (p3 % low) * up + p4 \div low>>
             dropped == p4 % low
         IN  IF s = 0 THEN Float(FALSE, frac, x.exp)
             ELSE RoundNearestEven(frac, dropped \div 2^(s - 1),
                                   dropped % 2^(s - 1) # 0, x.exp + s)

\* x <= y for floats that are not negative
FloatLE(x, y) ==
    \/ x.zero
    \/ /\ ~y.zero
       /\ \/ x.exp < y.exp
          \/ /\ x.exp = y.exp
             /\ \/ x.frac = y.frac
                \/ \E i \in 1..4 :
                     /\ x.frac[i] < y.frac[i]
                     /\ \A j \in 1..(i - 1) : x.frac[j] = y.frac[j]

\* a percentage that is 100 for every task whose own status is done
get_completion_percentage_full_when_done(e) ==
    IF Len(e.subtasks) = 0 \/ is_completed(e)
    THEN (IF is_completed(e) THEN TrueDiv(100, 1) ELSE FloatZero)
    ELSE MulInt(TrueDiv(get_completed_subtask_count(e), Len(e.subtasks)),
                100)

\* Task.get_completion_percentage
get_completion_percentage(e) ==
    IF Len(e.subtasks) = 0
    THEN (IF is_completed(e) THEN TrueDiv(100, 1) ELSE FloatZero)
    ELSE MulInt(TrueDiv(get_completed_subtask_count(e), Len(e.subtasks)),
                100)

(* ------------------------- the client object --------------------------- *)
(* client.py: construction, the headers and the URL of a request, the      *)
(* requests.Session the client owns, close and the context manager.        *)

\* explicit close() calls tried on one client
MaxCloses == 3

Threads == {1, 2}

\* api_url.rstrip("/")
rstrip(u) == [u EXCEPT !.slashes = 0]

\* a header map without entries
NoHeaders == [h \in {} |-> <<>>]

\* requests.Session(): its default headers, an empty cookie jar and no
\* pooled connection
NewSession ==
    [headers |-> ("User-Agent" :> <<"python-requests">> @@
                  "Accept-Encoding" :> <<"gzip, deflate">> @@
                  "Accept" :> <<"*/*">> @@
                  "Connection" :> <<"keep-alive">>),
     cookies |-> {},
     pool    |-> "empty"]

\* TaskMasterClient._setup_session
_setup_session(sess) ==
    [sess EXCEPT !.headers = ("Content-Type" :> <<"application/json">>) @@ @]

\* TaskMasterClient.__init__ for a non-empty api_url: the attributes of the
\* client and its session
__init__(api_url, token) ==
    [self    |-> [api_url |-> rstrip(api_url), token |-> token,
                  timeout |-> 30, max_retries |-> 3, retry_backoff |-> 1,
                  session |-> "session"],
     session |-> _setup_session(NewSession)]

\* a truth value that is true of every token but None
Truthy_unless_none(token) == token # "None"

\* the truth value of self.token
Truthy(token) == token \notin {"None", ""}

\* the headers with Authorization stored in the session's own map
_get_headers_in_place(slf, sess) ==
    LET headers == IF Truthy(slf.token)
                   THEN ("Authorization" :> <<"Bearer", slf.token>>) @@
                        sess.headers
                   ELSE sess.headers
    IN  [headers |-> headers, session |-> [sess EXCEPT !.headers = headers]]

\* TaskMasterClient._get_headers: the headers returned, and the session
\* after the call
_get_headers(slf, sess) ==
    [headers |-> IF Truthy(slf.token)
                 THEN ("Authorization" :> <<"Bearer", slf.token>>) @@
                      sess.headers
                 ELSE sess.headers,
     session |-> sess]

\* the arguments an operation takes; those it does not take are "None"
ArgsOf(o, task_id, subtask_id, data) ==
    [data       |-> IF o \in CreateOps \cup UpdateOps THEN data ELSE "None",
     task_id    |-> IF o \in {"list_tasks", "create_task"}
                    THEN "None" ELSE task_id,
     subtask_id |-> IF o \in {"get_subtask", "update_subtask",
                              "delete_subtask"}
                    THEN subtask_id ELSE "None"]

\* the endpoint each operation passes to _make_request
Endpoint(o, a) ==
    CASE o \in {"list_tasks", "create_task"} -> <<"tasks">>
      [] o \in {"get_task", "update_task", "delete_task"}
           -> <<"tasks", a.task_id>>
      [] o \in {"list_subtasks", "create_subtask"}
           -> <<"tasks", a.task_id, "subtasks">>
      [] OTHER -> <<"tasks", a.task_id, "subtasks", a.subtask_id>>

\* the query parameters: list_tasks with its default limit and offset
Params(o) == IF o = "list_tasks" THEN "limit=50&offset=0" ELSE "None"

Request(method, url, headers, body, params, timeout) ==
    [method |-> method, url |-> url, headers |-> headers, body |-> body,
     params |-> params, timeout |-> timeout]

NoRequest ==
    Request("none", [api_url |-> [base |-> "none", slashes |-> 0],
                     endpoint |-> <<>>],
            NoHeaders, "None", "None", 0)

\* _make_request up to session.request: what the client hands to the
\* session
BuildRequest(slf, sess, o, a) ==
    Request(Method(o), [api_url |-> slf.api_url, endpoint |-> Endpoint(o, a)],
            _get_headers(slf, sess).headers, a.data, Params(o), slf.timeout)

\* session.request preparing the request: the headers of the call over
\* those of the session, and the cookies of the session's jar
Prepare(req, sess) ==
    [req EXCEPT !.headers =
        (IF sess.cookies = {} THEN NoHeaders
         ELSE "Cookie" :> <<"sid">>) @@ req.headers @@ sess.headers]

\* the session taking in a response: the cookies it sets go to the jar, the
\* connection stays in the pool
TakeResponse(sess, set_cookie) ==
    [sess EXCEPT !.cookies = IF set_cookie THEN @ \cup {"sid"} ELSE @,
                 !.pool = "open"]

\* the responses tried for operation o: the entity or list it asks for,
\* and 404
ClientResponses(o) ==
    { [status |-> 200, retry_after |-> FALSE,
       body |-> [form |-> "object", message |-> "absent", code |-> "absent",
                 data |-> IF o \in ListOps THEN "list_valid"
                          ELSE "object_valid",
                 status |-> st, error |-> IF st = "error" THEN "present"
                                         ELSE "absent"]] :
        st \in {"ok", "error"} } \cup
    { [status |-> 404, retry_after |-> FALSE,
       body |-> [form |-> "object", message |-> "Task not found",
                 code |-> "absent", data |-> "absent",
                 status |-> "error", error |-> "absent"]] }

\* a close that fails on a session that has no pooled connection
close_failing_when_closed(sess) ==
    [session |-> [sess EXCEPT !.pool = "empty"],
     err     |-> IF sess.pool = "empty" THEN "Exception" ELSE "none"]

\* TaskMasterClient.close: self.session is a Session object, which is true,
\* and Session.close empties the pool of its adapters
close(sess) ==
    [session |-> [sess EXCEPT !.pool = "empty"], err |-> "none"]

\* an exit handler that returns a true value
__exit___returning_true(sess, exc) ==
    [session |-> close(sess).session, err |-> close(sess).err,
     suppress |-> TRUE]

\* TaskMasterClient.__exit__: it closes and returns None, so the error of
\* the body is not suppressed
__exit__(sess, exc) ==
    [session |-> close(sess).session, err |-> close(sess).err,
     suppress |-> FALSE]

\* the arguments of no call
NoArgs == ArgsOf("list_tasks", "None", "None", "None")

\* a thread's call: where it is, the operation and its arguments, the
\* request built, the request sent, the response and the outcome
IdleCall ==
    [pc |-> "idle", op |-> "none", args |-> NoArgs, req |-> NoRequest,
     sent |-> NoRequest, resp |-> NoResponse, outcome |-> NoResult]

\* the lifetime of the client object
NewLife ==
    [scope |-> "none", raised |-> "none", reached |-> "none",
     exit_pool |-> "none", closes |-> 0, run |-> 0,
     before |-> _setup_session(NewSession), failed |-> FALSE,
     deleted |-> FALSE]

\* the lifetime after one more close() with result c on session sess: run
\* counts the calls since the last operation, before is the session as it
\* was ahead of the first of them
Closing(lf, sess, c) ==
    [lf EXCEPT !.closes = @ + 1,
               !.run = @ + 1,
               !.before = IF lf.run = 0 THEN sess ELSE @,
               !.failed = @ \/ c.err # "none"]

(* -------------------------------- state -------------------------------- *)

(* ============================ auth/jwt_handler.py ======================= *)

\* the latest time the clock reaches
MaxTime == 2

\* secrets a handler is given: two shared secrets, and the text of a
\* PEM-encoded RSA public key
Secrets == {"secret1", "secret2", "pem"}

\* the algorithms argument of JWTHandler: <<>> stands for None and for []
AlgorithmLists == {<<>>, <<"HS256">>, <<"RS256">>, <<"HS256", "HS512">>}

\* the algorithm in a token's header
TokenAlgorithms == {"HS256", "HS512", "RS256"}

\* the claims of a token, apart from exp
ClaimSets == {"sub=user-123", "sub=admin"}

\* what the build raises when an RSA algorithm is handed a key that is not
\* PEM text: PyJWT's InvalidKeyError, the ValueError of the key loader in
\* releases that do not wrap it, or InvalidAlgorithmError where the
\* optional cryptography package is missing
KeyFailures == {"jwt.InvalidKeyError", "ValueError",
                "jwt.InvalidAlgorithmError"}

\* a token: form "jwt" for three well-formed segments; key is the key under
\* which the signature verifies (for RS256, the public key of the pair)
Token(form, alg, key, claims, has_exp, exp) ==
    [form |-> form, alg |-> alg, key |-> key, claims |-> claims,
     has_exp |-> has_exp, exp |-> exp]

NoToken == Token("none", "none", "none", "none", FALSE, 0)

\* the tokens a caller may hold without having encoded them here
PresentedTokens ==
    {(Token("garbage", "none", "none", "none", FALSE, 0))} \cup
    {Token("jwt", a, k, c, e[1], e[2]) :
        a \in TokenAlgorithms, k \in Secrets \cup {"forged"},
        c \in ClaimSets, e \in {<<FALSE, 0>>, <<TRUE, 1>>}}

\* JWTHandler.__init__
JWTHandler(secret, algorithms, verify) ==
    [secret |-> secret,
     algorithms |-> IF algorithms = <<>> THEN <<"HS256">> ELSE algorithms,
     verify |-> verify]

\* the key cannot be used with the algorithm: an HMAC algorithm refuses PEM
\* text, an RSA algorithm needs it
Unusable(key, alg) ==
    IF alg = "RS256" THEN key # "pem" ELSE key = "pem"

\* jwt.decode(token, key, algorithms=algorithms,
\*            options={"verify_signature": verify_signature}) at time at:
\* the header is parsed, then (when verifying) the algorithm is checked
\* against the list, the key is prepared, the signature is verified and
\* exp is validated
jwt_decode(tok, key, algorithms, verify_signature, at, build) ==
    LET fail(c) == [err |-> c, claims |-> "none"]
        allowed == \E i \in 1..Len(algorithms) : algorithms[i] = tok.alg
    IN  IF tok.form # "jwt" THEN fail("jwt.DecodeError")
        ELSE IF ~verify_signature
            THEN [err |-> "none", claims |-> tok.claims]
        ELSE IF ~allowed THEN fail("jwt.InvalidAlgorithmError")
        ELSE IF Unusable(key, tok.alg)
            THEN fail(IF tok.alg = "RS256" THEN build
                      ELSE "jwt.InvalidKeyError")
        ELSE IF tok.key # key THEN fail("jwt.InvalidSignatureError")
        ELSE IF tok.has_exp /\ tok.exp <= at
            THEN fail("jwt.ExpiredSignatureError")
        ELSE [err |-> "none", claims |-> tok.claims]

\* JWTHandler.decode
decode(h, tok, at, build) ==
    LET r == jwt_decode(tok, h.secret, h.algorithms, h.verify, at, build)
    IN  IF r.err = "none" THEN Returned(r.claims)
        ELSE IF IsA(r.err, "jwt.ExpiredSignatureError")
            THEN Raised(TokenExpiredError("Token has expired"), r.err)
        ELSE IF IsA(r.err, "jwt.InvalidTokenError")
            THEN Raised(InvalidTokenError("Invalid token"), r.err)
        ELSE Raised(ForeignError(r.err), "none")

\* is_expired passing the handler's verify flag on to jwt.decode
is_expired_honouring_verify(h, tok, at, build) ==
    LET r == jwt_decode(tok, h.secret, h.algorithms, h.verify, at, build)
    IN  IF r.err = "none" THEN Returned("False")
        ELSE IF IsA(r.err, "jwt.InvalidTokenError") THEN Returned("True")
        ELSE Raised(ForeignError(r.err), "none")

\* JWTHandler.is_expired
is_expired(h, tok, at, build) ==
    LET r == jwt_decode(tok, h.secret, h.algorithms, TRUE, at, build)
    IN  IF r.err = "none" THEN Returned("False")
        ELSE IF IsA(r.err, "jwt.ExpiredSignatureError")
            THEN Returned("True")
        ELSE IF IsA(r.err, "jwt.InvalidTokenError") THEN Returned("True")
        ELSE Raised(ForeignError(r.err), "none")

\* the key cannot sign with the algorithm: HMAC refuses PEM text, and RS256
\* needs a private key, which none of Secrets is
CannotSign(key, alg) == alg = "RS256" \/ key = "pem"

\* JWTHandler.encode: the token, or the error that replaced whatever
\* jwt.encode raised
encode(h, claims, algorithm, expires_in, at) ==
    IF CannotSign(h.secret, algorithm)
    THEN [token |-> NoToken,
          out |-> Raised(InvalidTokenError("Failed to encode token"),
                         "Exception")]
    ELSE [token |-> Token("jwt", algorithm, h.secret, claims,
                          expires_in # 0,
                          IF expires_in # 0 THEN at + expires_in ELSE 0),
          out |-> Returned("token")]

\* a call on the handler, the build it ran on and how it ended
Verdict(call, build, out) == [call |-> call, build |-> build, out |-> out]

NoVerdict == Verdict("none", "jwt.InvalidKeyError", NoResult)

VARIABLES
    client,   \* configuration fixed by __init__: max_retries, retry_backoff
    pc,       \* "idle", "sending" (inside session.request), "done"
    op,       \* the operation in progress
    total,    \* Retry.total left for the request in progress
    hist,     \* statuses of the attempts made so far (0: no response)
    slept,    \* the last sleep between two attempts
    resp,     \* the response handed to _make_request, if any
    result,   \* how the operation ended
    payload,  \* the dictionary last handed to from_api_response
    entity,   \* the entity built from it, if any
    perr,     \* the error from_api_response raised, "none" if none
    listing,  \* the list a list operation last parsed, and what came of it
    self,     \* the attributes of the TaskMasterClient
    session,  \* the requests.Session it owns
    constructed, \* self and session as __init__ left them
    thr,      \* the call each thread is making on the client
    life,     \* scope, close() calls and deletion of the client
    thrown,   \* the SDK error last constructed
    handler,  \* the attributes of the JWTHandler
    token,    \* the token the caller holds
    now,      \* the clock
    verdict   \* the last JWTHandler call: its inputs and how it ended

pipeline_vars == <<client, pc, op, total, hist, slept, resp, result>>

entity_vars == <<payload, entity, perr, listing>>

object_vars == <<self, session, constructed, thr, life>>

auth_vars == <<thrown, handler, token, now, verdict>>

\* the variables the request pipeline does not touch
non_pipeline_vars == <<entity_vars, object_vars, auth_vars>>

\* the variables the domain model does not touch
non_entity_vars == <<pipeline_vars, object_vars, auth_vars>>

\* the variables the client object does not touch
non_object_vars == <<pipeline_vars, entity_vars, auth_vars>>

\* the variables the error classes and the JWT handler do not touch
non_auth_vars == <<pipeline_vars, entity_vars, object_vars>>

vars == <<pipeline_vars, entity_vars, object_vars, auth_vars>>

\* no operation in progress
PipelineIdle ==
    /\ pc = "idle"
    /\ op = "none"
    /\ total = 0
    /\ hist = <<>>
    /\ slept = NoSleep
    /\ resp = NoResponse
    /\ result = NoResult

\* a client built with the default arguments, no call in progress
ObjectIdle ==
    /\ constructed = __init__([base |-> "http://localhost:3000/api/v1",
                               slashes |-> 0], "None")
    /\ self = constructed.self
    /\ session = constructed.session
    /\ thr = [t \in Threads |-> IdleCall]
    /\ life = NewLife

\* no entity built
EntityIdle ==
    /\ payload = NoPayload
    /\ entity = NoEntity
    /\ perr = "none"
    /\ listing = NoListing

\* no error constructed; a handler built with the default arguments, no
\* call made on it
AuthIdle ==
    /\ thrown = NoError
    /\ handler = JWTHandler("secret1", <<>>, TRUE)
    /\ token = NoToken
    /\ now = 0
    /\ verdict = NoVerdict

Init ==
    /\ client \in [max_retries : 0..MaxRetriesBound,
                   retry_backoff : {1, 50}]
    /\ pc = "idle"
    /\ op = "none"
    /\ total = 0
    /\ hist = <<>>
    /\ slept = NoSleep
    /\ resp = NoResponse
    /\ result = NoResult
    /\ EntityIdle
    /\ ObjectIdle
    /\ AuthIdle

\* the caller invokes operation o: _make_request enters session.request
\* with a fresh copy of the retry policy
Call(o) ==
    /\ pc = "idle"
    /\ pc' = "sending"
    /\ op' = o
    /\ total' = client.max_retries
    /\ hist' = <<>>
    /\ slept' = NoSleep
    /\ resp' = NoResponse
    /\ result' = NoResult
    /\ UNCHANGED client
    /\ UNCHANGED non_pipeline_vars

\* an attempt is answered with response r
ReceiveResponse(r, j) ==
    /\ pc = "sending"
    /\ hist' = Append(hist, r.status)
    /\ IF is_retry(Method(op), r.status, r.retry_after, total)
       THEN IF is_exhausted(total - 1)
            \* MaxRetryError(ResponseError) -> requests RetryError
            THEN /\ pc' = "done"
                 /\ result' = WrapRequestException("requests.RetryError")
                 /\ UNCHANGED <<total, slept, resp>>
            ELSE /\ total' = total - 1
                 /\ slept' = sleep(r.retry_after, client.retry_backoff,
                                   Len(hist) + 1)
                 /\ UNCHANGED <<pc, resp, result>>
       ELSE /\ pc' = "done"
            /\ resp' = r
            /\ result' = Finish(op, r, j)
            /\ UNCHANGED <<total, slept>>
    /\ UNCHANGED <<client, op>>
    /\ UNCHANGED non_pipeline_vars

\* an attempt gets no response: connection refused or reset, timeout
TransportFailure ==
    /\ pc = "sending"
    /\ hist' = Append(hist, 0)
    /\ IF is_exhausted(total - 1)
       \* MaxRetryError -> requests ConnectionError
       THEN /\ pc' = "done"
            /\ result' = WrapRequestException("requests.ConnectionError")
            /\ UNCHANGED <<total, slept, resp>>
       ELSE /\ total' = total - 1
            /\ slept' = sleep(FALSE, client.retry_backoff, Len(hist) + 1)
            /\ UNCHANGED <<pc, resp, result>>
    /\ UNCHANGED <<client, op>>
    /\ UNCHANGED non_pipeline_vars

\* the caller has the outcome; the client is ready for the next call
Complete ==
    /\ pc = "done"
    /\ pc' = "idle"
    /\ op' = "none"
    /\ total' = 0
    /\ hist' = <<>>
    /\ slept' = NoSleep
    /\ resp' = NoResponse
    /\ result' = NoResult
    /\ UNCHANGED client
    /\ UNCHANGED non_pipeline_vars

Next ==
    \/ \E o \in Operations : Call(o)
    \/ \E r \in Responses, j \in {"requests.JSONDecodeError", "ValueError"} :
            ReceiveResponse(r, j)
    \/ TransportFailure
    \/ Complete

Spec == Init /\ [][Next]_vars

(* ======================== properties of the pipeline =================== *)

\* the statuses the retry policy is documented to retry
TransientStatuses == {429, 500, 502, 503, 504}

\* an attempt's outcome is transient: no response (0) or a transient status
Transient(s) == s = 0 \/ s \in TransientStatuses

\* the outcome of the last attempt made so far
LastOutcome == hist[Len(hist)]

\* the error kind documented for a status >= 400
MostSpecific(s) ==
    CASE s = 400 -> "BadRequestError"
      [] s = 401 -> "AuthenticationError"
      [] s = 404 -> "NotFoundError"
      [] s = 409 -> "ConflictError"
      [] s = 429 -> "RateLimitError"
      [] s = 503 -> "ServiceUnavailableError"
      [] s >= 500 -> "ServerError"
      [] OTHER -> "APIError"

\* the operation ended on an HTTP response (not on a transport failure)
EndedOnResponse == pc = "done" /\ Len(hist) >= 1 /\ LastOutcome # 0

\* C1: every operation that ends on a response with status >= 400 (and a
\* body the status handler can read: a JSON object, or no JSON at all)
\* raises the most specific error kind of that status, and one that ends on
\* a status < 400 raises no status-mapped error.
C1_MostSpecificErrorRaised ==
    EndedOnResponse =>
        IF LastOutcome >= 400
        THEN (resp.status = LastOutcome => resp.body.form \in {"object", "empty", "text"})
             => /\ result.kind = "raise"
                /\ result.err.exc = MostSpecific(LastOutcome)
        ELSE ~(/\ result.kind = "raise"
               /\ \/ IsA(result.err.exc, "APIError")
                  \/ IsA(result.err.exc, "AuthenticationError"))

\* C2 (as claimed): a request is re-sent only after a transport failure or
\* a response with status 429, 500, 502, 503 or 504; any other status ends
\* the operation on the first response.
C2_ResendOnlyAfterTransient ==
    (pc = "sending" /\ Len(hist) >= 1) => Transient(LastOutcome)

\* C2 (amended): a request is re-sent only after a transport failure, a
\* response with status 429, 500, 502, 503 or 504, or a 413 response that
\* carries a Retry-After header; 400, 401, 404 and 409 end the operation
\* after exactly one attempt, whatever the verb.
C2_ResendOnlyAfterTransientOrRetryAfter413 ==
    /\ (pc = "sending" /\ Len(hist) >= 1) =>
          \/ Transient(LastOutcome)
          \/ /\ LastOutcome = 413
             /\ slept.by_header
             /\ slept.n = Len(hist)
    /\ (Len(hist) >= 1 /\ hist[1] \in {400, 401, 404, 409}) =>
          /\ pc = "done"
          /\ Len(hist) = 1
          /\ result.kind = "raise"

\* C2 witness: a POST answered 401 has ended after one attempt with an
\* AuthenticationError on a client that allows three retries
C2_Witness ==
    /\ pc = "done"
    /\ Method(op) = "POST"
    /\ client.max_retries = 3
    /\ hist = <<401>>
    /\ result.err.exc = "AuthenticationError"

\* C3 (as claimed): an operation makes at most max_retries HTTP attempts in
\* total, 3 with the default configuration.
C3_AtMostMaxRetriesAttempts ==
    (client.max_retries = 3 /\ \A i \in 1..Len(hist) : Transient(hist[i]))
        => Len(hist) <= client.max_retries

\* C3 (amended): an operation makes at most max_retries + 1 HTTP attempts,
\* the first one and max_retries retries.
C3_AtMostMaxRetriesPlusOneAttempts == Len(hist) <= client.max_retries + 1

\* C3 witness: the default configuration has used its whole budget
C3_Witness ==
    /\ pc = "done"
    /\ client.max_retries = 3
    /\ Len(hist) = 4
    /\ \A i \in 1..4 : Transient(hist[i])

\* the envelope the operation o needs to produce a value
WellFormedFor(o, body) ==
    /\ body.form = "object"
    /\ \/ o \in DeleteOps
       \/ o \in ListOps /\ body.data \in {"list_empty", "list_valid"}
       \/ o \in GetOps \cup CreateOps \cup UpdateOps /\ body.data = "object_valid"

\* the value the operation o produces from a well-formed envelope
ExpectedValue(o, body) ==
    IF o \in DeleteOps THEN "True"
    ELSE IF o \in ListOps
         THEN (IF body.data = "list_valid" THEN "entity_list" ELSE "empty_list")
    ELSE "entity"

\* C4: when the first k >= 1 attempts end in transient outcomes and the next
\* one is answered with a status < 400, the operation ends on that response
\* and returns its parsed result (for a well-formed envelope) without
\* raising; and an operation is not given up on a transient outcome before
\* max_retries attempts were made.
C4_RetryThenSuccessReturns ==
    pc = "done" =>
      LET n == Len(hist) IN
      /\ ( /\ n >= 2
           /\ \A i \in 1..(n - 1) : Transient(hist[i])
           /\ hist[n] \in 1..399 )
         => /\ resp.status = hist[n]
            /\ WellFormedFor(op, resp.body)
                 => result = Returned(ExpectedValue(op, resp.body))
      /\ Transient(hist[n]) => n >= client.max_retries

\* C4 witness: a 500 followed by a 200 with a task in it, returned by get_task
C4_Witness ==
    /\ pc = "done"
    /\ op = "get_task"
    /\ hist = <<500, 200>>
    /\ result = Returned("entity")

\* C5: when every attempt is answered 429, 500 or 503 until the retry budget
\* is exhausted, the operation raises the error kind mapped to that status.
C5_ExhaustedRetriesRaiseMappedError ==
    \A s \in {429, 500, 503} :
        ( /\ pc = "done"
          /\ Len(hist) = client.max_retries + 1
          /\ \A i \in 1..Len(hist) : hist[i] = s )
        => /\ result.kind = "raise"
           /\ result.err.exc = MostSpecific(s)

\* C6: when the last attempt got no response at all, the operation ends
\* with the transport failure itself, not with an error of the SDK taxonomy.
C6_TransportFailurePropagatesAsIs ==
    (pc = "done" /\ LastOutcome = 0) =>
        /\ result.kind = "raise"
        /\ ~IsA(result.err.exc, "TaskMasterError")
        /\ IsA(result.err.exc, "requests.RequestException")

C8_ErrorCarriesOriginalStatus ==
    ( /\ pc = "done"
      /\ resp.status >= 400
      /\ result.kind = "raise"
      /\ IsA(result.err.exc, "TaskMasterError") )
    => /\ result.err.status_code = resp.status
       /\ result.err.code # "None"

\* C9: a response with status >= 400 ends in an SDK error whatever its body
\* is; the message is the body's message field when there is one and the
\* reason phrase otherwise, and the generic APIError takes the body's code
\* field, or "UNKNOWN".
C9_AnyErrorBodyGivesTaxonomyError ==
    (pc = "done" /\ resp.status >= 400) =>
        /\ result.kind = "raise"
        /\ IsA(result.err.exc, "TaskMasterError")
        /\ result.err.message =
             IF resp.body.message # "absent" THEN resp.body.message
             ELSE Reason(resp.status)
        /\ result.err.exc = "APIError" =>
             result.err.code =
               IF resp.body.code # "absent" THEN resp.body.code ELSE "UNKNOWN"

\* C10: a delete operation that ends on a response with status < 400
\* returns true whatever the body is, and one that ends on a status >= 400
\* raises; it never returns anything but true.
C10_DeleteReturnsTrueOnAnyBody ==
    (pc = "done" /\ op \in DeleteOps) =>
        /\ resp.status \in 1..399 => result = Returned("True")
        /\ resp.status >= 400 => result.kind = "raise"
        /\ result.kind = "return" => result.value = "True"

\* C11: a list operation that ends on a status < 400 whose envelope has no
\* data field, or a data field that is not a list (null, object, string,
\* number), returns an empty sequence and raises nothing.
C11_ListToleratesNonListData ==
    ( /\ pc = "done"
      /\ op \in ListOps
      /\ resp.status \in 1..399
      /\ resp.body.form = "object"
      /\ resp.body.data \in {"absent", "null", "string", "number",
                             "object_valid", "object_invalid"} )
    => result = Returned("empty_list")

\* C11 witness: list_subtasks answered 200 with data null returned []
C11_Witness ==
    /\ pc = "done"
    /\ op = "list_subtasks"
    /\ resp.status = 200
    /\ resp.body.form = "object"
    /\ resp.body.data = "null"
    /\ result = Returned("empty_list")

\* C13: an operation ends with a returned value, an error of the SDK
\* taxonomy or a transport failure; in particular a response with status
\* < 400 never ends in an error that is neither (TypeError, AttributeError,
\* KeyError, ValueError).
C13_EveryFailureIsTaxonomyOrTransport ==
    ( /\ pc = "done"
      /\ resp.status \in 1..399
      /\ result.kind = "raise" )
    => \/ IsA(result.err.exc, "TaskMasterError")
       \/ IsA(result.err.exc, "requests.RequestException")

(* ====================== the domain model on its own ==================== *)

\* a fixed client, no operation in progress, nothing parsed yet
InitEntity ==
    /\ client = [max_retries |-> 3, retry_backoff |-> 1]
    /\ PipelineIdle
    /\ EntityIdle
    /\ ObjectIdle
    /\ AuthIdle

\* Task.from_api_response(p) or SubTask.from_api_response(p), one entity at
\* a time
FromApiResponse(p) ==
    /\ payload = NoPayload
    /\ listing = NoListing
    /\ payload' = p
    /\ entity' = from_api_response(p).entity
    /\ perr' = from_api_response(p).err
    /\ UNCHANGED listing
    /\ UNCHANGED non_entity_vars

\* task.status = s on the task built last (the models do not validate
\* assignments)
AssignStatus(s) ==
    /\ entity.cls = "Task"
    /\ entity' = [entity EXCEPT !.status = s]
    /\ UNCHANGED <<payload, perr, listing>>
    /\ UNCHANGED non_entity_vars

\* the caller drops the entity, or the error
Discard ==
    /\ payload # NoPayload
    /\ payload' = NoPayload
    /\ entity' = NoEntity
    /\ perr' = "none"
    /\ UNCHANGED listing
    /\ UNCHANGED non_entity_vars

\* list_tasks or list_subtasks on a response whose data is the list data:
\* the list comprehension over from_api_response
ListFromApiResponse(data) ==
    /\ payload = NoPayload
    /\ listing = NoListing
    /\ listing' = [data |-> data, done |-> TRUE,
                   value |-> ParseList(data).value,
                   err |-> ParseList(data).err]
    /\ UNCHANGED <<payload, entity, perr>>
    /\ UNCHANGED non_entity_vars

\* the caller drops the list, or the error
DiscardList ==
    /\ listing # NoListing
    /\ listing' = NoListing
    /\ UNCHANGED <<payload, entity, perr>>
    /\ UNCHANGED non_entity_vars

NextEntity ==
    \/ \E p \in (TaskPayloads \cup SubTaskPayloads) : FromApiResponse(p)
    \/ \E s \in TaskStatus : AssignStatus(s)
    \/ Discard
    \/ \E n \in 0..MaxListLen, cls \in {"Task", "SubTask"} :
            \E data \in [1..n -> ListElements(cls)] :
                ListFromApiResponse(data)
    \/ DiscardList

SpecEntity == InitEntity /\ [][NextEntity]_vars

(* ==================== properties of the domain model =================== *)

\* a required field of the payload is missing, or its title is out of range
MissingOrOutOfRange ==
    \/ \E f \in RequiredOf(payload.cls) : f \notin payload.present
    \/ "title" \in payload.present /\ payload.title_len \notin 1..255

\* C12: from_api_response on Task or SubTask fails with the SDK's own
\* ValidationError, an error that is a TaskMasterError, whenever a required
\* field is missing or a field is out of range, and it succeeds when the
\* input is valid and has extra unknown fields.
C12_ParsingFailsWithSdkValidationError ==
    /\ (payload # NoPayload /\ MissingOrOutOfRange)
         => (perr = "ValidationError" /\ IsA(perr, "TaskMasterError"))
    /\ ( /\ payload # NoPayload
         /\ ~MissingOrOutOfRange
         /\ payload.status \in TaskStatus
         /\ payload.priority \in TaskPriority \cup {"medium"}
         /\ payload.extra )
         => perr = "none"

\* C19: for a Task in any of the six statuses, after any sequence of status
\* assignments, is_active() holds iff the status is pending or in-progress,
\* is_completed() iff it is done, is_blocked() iff it is blocked; is_active
\* and is_completed never both hold, and neither holds for deferred,
\* cancelled or blocked.
C19_StatusPredicatesFollowStatus ==
    (entity.cls = "Task" /\ entity.status \in
        {"pending", "in-progress", "done", "deferred", "cancelled", "blocked"})
    => /\ is_active(entity) <=> entity.status \in {"pending", "in-progress"}
       /\ is_completed(entity) <=> entity.status = "done"
       /\ is_blocked(entity) <=> entity.status = "blocked"
       /\ ~(is_active(entity) /\ is_completed(entity))
       /\ entity.status \in {"deferred", "cancelled", "blocked"}
            => (~is_active(entity) /\ ~is_completed(entity))

\* a task whose status was assigned after it was built, now blocked
C19_Witness ==
    /\ entity.cls = "Task"
    /\ payload.status = "pending"
    /\ entity.status = "blocked"
    /\ is_blocked(entity)
    /\ ~is_active(entity)

\* the subtasks of the entity whose status is done
DoneSubtasks == { i \in 1..Len(entity.subtasks) : entity.subtasks[i] = "done" }

\* 100 * done / count is a float: the division leaves no remainder within
\* the significand
Representable(p, q) ==
    \/ p = 0
    \/ LongDivision(Scaled(p, q).num, Scaled(p, q).den).rest = 0

\* C20: get_completion_percentage() is exactly 100 for a task with no
\* subtasks and status done, exactly 0 for a task with no subtasks and any
\* other status, and otherwise exactly 100 * done / count (stated here for
\* the counts where that number is a float); it lies between 0 and 100.
C20_PercentageIsExact ==
    entity.cls = "Task" =>
      LET count == Len(entity.subtasks)
          done  == Cardinality(DoneSubtasks)
          pct   == get_completion_percentage(entity)
      IN  /\ (count = 0 /\ entity.status = "done") => pct = TrueDiv(100, 1)
          /\ (count = 0 /\ entity.status # "done") => pct = FloatZero
          /\ (count > 0 /\ Representable(100 * done, count))
               => pct = TrueDiv(100 * done, count)
          /\ FloatLE(FloatZero, pct)
          /\ FloatLE(pct, TrueDiv(100, 1))

(* ================== the client object used by two threads ============== *)

\* the client as __init__ leaves it, for each api_url and token tried
InitObject ==
    /\ client = [max_retries |-> 3, retry_backoff |-> 1]
    /\ PipelineIdle
    /\ EntityIdle
    /\ AuthIdle
    /\ \E n \in {0, 1}, k \in {"None", "", "jwt"} :
            constructed = __init__([base |-> "http://localhost:3000/api/v1",
                                    slashes |-> n], k)
    /\ self = constructed.self
    /\ session = constructed.session
    /\ thr = [t \in Threads |-> IdleCall]
    /\ life = NewLife

\* thread t calls operation o with arguments a: _make_request builds the
\* URL and the headers
Invoke(t, o, a) ==
    /\ thr[t].pc = "idle"
    /\ thr' = [thr EXCEPT ![t] =
                 [IdleCall EXCEPT !.pc = "built", !.op = o, !.args = a,
                                  !.req = BuildRequest(self, session, o, a)]]
    /\ session' = _get_headers(self, session).session
    /\ UNCHANGED <<self, constructed, life>>
    /\ UNCHANGED non_object_vars

\* session.request prepares the request of thread t and sends it
Send(t) ==
    /\ thr[t].pc = "built"
    /\ thr' = [thr EXCEPT ![t].pc = "sent",
                          ![t].sent = Prepare(thr[t].req, session)]
    /\ UNCHANGED <<self, session, constructed, life>>
    /\ UNCHANGED non_object_vars

\* the response r to thread t arrives, with or without a Set-Cookie
\* header, and the operation ends
Receive(t, r, set_cookie) ==
    /\ thr[t].pc = "sent"
    /\ thr' = [thr EXCEPT ![t].pc = "done",
                          ![t].resp = r,
                          ![t].outcome = Finish(thr[t].op, r, "ValueError")]
    /\ session' = TakeResponse(session, set_cookie)
    /\ UNCHANGED <<self, constructed, life>>
    /\ UNCHANGED non_object_vars

\* the caller of thread t has the outcome
Return(t) ==
    /\ thr[t].pc = "done"
    /\ thr' = [thr EXCEPT ![t] = IdleCall]
    /\ UNCHANGED <<self, session, constructed, life>>
    /\ UNCHANGED non_object_vars

NextThreads ==
    \/ \E t \in Threads, o \in Operations, i \in {"1", "2"}, si \in {"1.1"},
          d \in {"d1", "d2"} : Invoke(t, o, ArgsOf(o, i, si, d))
    \/ \E t \in Threads : Send(t)
    \/ \E t \in Threads, set_cookie \in BOOLEAN :
          \E r \in ClientResponses(thr[t].op) : Receive(t, r, set_cookie)
    \/ \E t \in Threads : Return(t)

SpecThreads == InitObject /\ [][NextThreads]_vars

(* ===================== the lifetime of the client object =============== *)

\* the body of the scope has ended with an error, __exit__ is next
BodyEnded == life.scope = "inside" /\ life.raised # "none"

\* an operation of the client runs to its end
Operate(set_cookie) ==
    /\ ~life.deleted
    /\ ~BodyEnded
    /\ session' = TakeResponse(_get_headers(self, session).session,
                               set_cookie)
    /\ life' = [life EXCEPT !.run = 0]
    /\ UNCHANGED <<self, constructed, thr>>
    /\ UNCHANGED non_object_vars

\* with client: __enter__ returns self
Enter ==
    /\ ~life.deleted
    /\ life.scope = "none"
    /\ life' = [life EXCEPT !.scope = "inside"]
    /\ UNCHANGED <<self, session, constructed, thr>>
    /\ UNCHANGED non_object_vars

\* the body of the scope ends with error e
BodyRaises(e) ==
    /\ life.scope = "inside"
    /\ life.raised = "none"
    /\ life' = [life EXCEPT !.raised = e]
    /\ UNCHANGED <<self, session, constructed, thr>>
    /\ UNCHANGED non_object_vars

\* the scope is left: __exit__ runs with the error of the body, if any
Exit ==
    /\ life.scope = "inside"
    /\ LET x == __exit__(session, life.raised)
       IN  /\ session' = x.session
           /\ life' = [Closing(life, session, x) EXCEPT
                         !.scope = "left",
                         !.exit_pool = x.session.pool,
                         !.reached = IF x.err # "none" THEN x.err
                                     ELSE IF x.suppress THEN "none"
                                     ELSE life.raised]
    /\ UNCHANGED <<self, constructed, thr>>
    /\ UNCHANGED non_object_vars

\* client.close()
Close ==
    /\ ~life.deleted
    /\ ~BodyEnded
    /\ life.closes < MaxCloses
    /\ session' = close(session).session
    /\ life' = Closing(life, session, close(session))
    /\ UNCHANGED <<self, constructed, thr>>
    /\ UNCHANGED non_object_vars

\* the last reference to the client goes away: __del__ calls close
Delete ==
    /\ ~life.deleted
    /\ life.scope # "inside"
    /\ session' = close(session).session
    /\ life' = [Closing(life, session, close(session)) EXCEPT
                  !.deleted = TRUE]
    /\ UNCHANGED <<self, constructed, thr>>
    /\ UNCHANGED non_object_vars

NextLifecycle ==
    \/ \E set_cookie \in BOOLEAN : Operate(set_cookie)
    \/ Enter
    \/ \E e \in {"TaskMasterError", "KeyError"} : BodyRaises(e)
    \/ Exit
    \/ Close
    \/ Delete

SpecLifecycle == InitObject /\ [][NextLifecycle]_vars

(* =================== properties of the client object =================== *)

\* the calls whose request has been built
Built == { t \in Threads : thr[t].pc # "idle" }

\* the token the client was built with counts as configured when it is a
\* non-empty string
TokenConfigured == constructed.self.token \notin {"None", ""}

\* C14: the headers attached to every request are a function of the
\* configured token: they contain Content-Type: application/json, and
\* Authorization: Bearer <token> if and only if a token is configured; two
\* calls on the same client give equal header maps.
C14_HeadersAreFunctionOfToken ==
    /\ \A t \in Built :
         LET headers == thr[t].req.headers
         IN  /\ "Content-Type" \in DOMAIN headers
             /\ headers["Content-Type"] = <<"application/json">>
             /\ "Authorization" \in DOMAIN headers <=> TokenConfigured
             /\ TokenConfigured =>
                  headers["Authorization"] =
                    <<"Bearer", constructed.self.token>>
    /\ \A t, u \in Built : thr[t].req.headers = thr[u].req.headers

\* both threads have built a request, the second after the first one came
\* back with a cookie, and both carry the bearer token
C14_Witness ==
    /\ Built = Threads
    /\ thr[1].pc = "done"
    /\ thr[2].pc = "built"
    /\ session.cookies # {}
    /\ TokenConfigured
    /\ thr[2].req.headers["Authorization"] = <<"Bearer", "jwt">>
    /\ thr[1].req.headers = thr[2].req.headers

\* C15: after construction no sequence of client operations, returning or
\* raising, changes the base URL, the token, the timeout, the retry
\* settings, the session identity or the session's default headers; the
\* Authorization header is never stored in the session headers.
C15_OperationsLeaveConfiguration ==
    /\ self = constructed.self
    /\ session.headers = constructed.session.headers
    /\ "Authorization" \notin DOMAIN session.headers

\* one operation has raised and another has returned on a client with a
\* token
C15_Witness ==
    /\ TokenConfigured
    /\ thr[1].pc = "done" /\ thr[1].outcome.kind = "raise"
    /\ thr[2].pc = "done" /\ thr[2].outcome.kind = "return"

\* the headers a request carries when they derive from the configuration
\* alone
ConfiguredHeaders ==
    (IF TokenConfigured
     THEN "Authorization" :> <<"Bearer", constructed.self.token>>
     ELSE NoHeaders) @@ constructed.session.headers

\* C16: when two threads issue operations on the same client concurrently,
\* under every interleaving each operation sends the URL, headers and body
\* derived only from its own arguments and the construction-time
\* configuration, and its outcome is the one it would have had alone
\* against the same responses.
C16_CallsAreIndependent ==
    \A t \in Threads :
      thr[t].pc \in {"sent", "done"} =>
        /\ thr[t].sent.url =
             [api_url |-> constructed.self.api_url,
              endpoint |-> Endpoint(thr[t].op, thr[t].args)]
        /\ thr[t].sent.body = thr[t].args.data
        /\ thr[t].sent.headers = ConfiguredHeaders
        /\ thr[t].pc = "done" =>
             thr[t].outcome = Finish(thr[t].op, thr[t].resp, "ValueError")

\* C17: close() is idempotent: called any number of times, anywhere in the
\* client's lifetime, it never fails and leaves the client in the closed
\* state a single call leaves.
C17_CloseIsIdempotent ==
    /\ ~life.failed
    /\ life.run >= 1 => session = [life.before EXCEPT !.pool = "empty"]

\* a client used, closed twice, closed again by the exit of its scope and
\* then once more on deletion
C17_Witness ==
    /\ life.scope = "left"
    /\ life.deleted
    /\ life.run >= 4
    /\ session.cookies # {}
    /\ session.pool = "empty"

\* C18: a client used as a scoped resource is closed on every exit path:
\* when the scope is left close() has been invoked, and an error raised
\* inside the scope reaches the caller.
C18_ScopeExitClosesAndPropagates ==
    life.scope = "left" =>
      /\ life.exit_pool = "empty"
      /\ life.closes >= 1
      /\ life.reached = life.raised

\* a scope whose body used the client and ended with an error
C18_Witness ==
    /\ life.scope = "left"
    /\ life.raised = "KeyError"
    /\ life.reached = "KeyError"
    /\ life.closes = 1
    /\ session.cookies # {}
    /\ session.pool = "empty"

(* ================ further properties of the domain model =============== *)

\* the Task payload p has a status outside the six, a priority outside the
\* four, or a title shorter than 1 or longer than 255
MalformedTask(p) ==
    \/ "status" \in p.present
         /\ p.status \notin {"pending", "in-progress", "done", "deferred",
                             "cancelled", "blocked"}
    \/ "priority" \in p.present
         /\ p.priority \notin {"low", "medium", "high", "critical"}
    \/ "title" \in p.present /\ (p.title_len < 1 \/ p.title_len > 255)

\* C21: constructing a Task fails, and yields no entity, when its status
\* is not one of the six, its priority not one of the four, or its title
\* shorter than 1 or longer than 255; an unknown status or priority is not
\* coerced to the default, and the defaults apply only to absent fields.
C21_TaskConstructionRejectsMalformed ==
    [][ (payload = NoPayload /\ payload' # NoPayload /\ payload'.cls = "Task")
        => /\ MalformedTask(payload') => (perr' # "none" /\ entity' = NoEntity)
           /\ perr' = "none" =>
                /\ entity'.status = IF "status" \in payload'.present
                                    THEN payload'.status ELSE "pending"
                /\ entity'.priority = IF "priority" \in payload'.present
                                      THEN payload'.priority ELSE "medium"
      ]_vars

\* a Task payload that is complete but for its unknown status, rejected
C21_Witness ==
    /\ payload.cls = "Task"
    /\ payload.present = TaskFields
    /\ payload.title_len = 1
    /\ payload.status = "invalid_status"
    /\ perr # "none"
    /\ entity = NoEntity

C29_PercentageIgnoresOwnStatus ==
    (entity.cls = "Task" /\ Len(entity.subtasks) > 0) =>
      LET pct == get_completion_percentage(entity)
      IN  /\ \A s \in {"pending", "in-progress", "done", "deferred",
                       "cancelled", "blocked"} :
               get_completion_percentage([entity EXCEPT !.status = s]) = pct
          /\ pct = TrueDiv(100, 1)
               <=> \A i \in 1..Len(entity.subtasks) :
                     entity.subtasks[i] = "done"

\* a task that is done and reports less than 100
C29_Witness ==
    /\ entity.cls = "Task"
    /\ entity.status = "done"
    /\ Len(entity.subtasks) = 3
    /\ entity.subtasks[1] = "done"
    /\ entity.subtasks[2] = "pending"
    /\ get_completion_percentage(entity) # TrueDiv(100, 1)

\* the scalar fields of an entity
ScalarFields ==
    {"id", "parent_id", "title", "description", "status", "priority",
     "created_at", "updated_at", "project_id", "account_id"}

\* a and b are the same value: the same text, in the same type or in a
\* string and an enumeration member of that string
SameValue(a, b) ==
    /\ a.val = b.val
    /\ \/ a.type = b.type
       \/ {a.type, b.type} \subseteq {"str", "TaskStatus", "TaskPriority"}

\* C23: round trip: for every valid payload p, to_api_request of the
\* entity parsed from p has no field that the entity lacks, and has every
\* scalar field present in p with the value it has in p.
C23_RoundTripPreservesScalars ==
    (payload # NoPayload /\ perr = "none") =>
      LET out == to_api_request(from_api_response(payload).entity)
      IN  /\ \A f \in DOMAIN out :
               f \in payload.present
                 \cup {"status", "priority", "subtasks"}
          /\ \A f \in ScalarFields \cap payload.present :
               /\ f \in DOMAIN out
               /\ SameValue(out[f], PayloadValue(payload, f))

\* the element p of a list passes validation
ValidElement(p) ==
    /\ {"id", "title", "created_at", "updated_at"} \subseteq p.present
    /\ p.cls = "SubTask" => "parent_id" \in p.present
    /\ p.title_len \in 1..255
    /\ p.cls = "Task" => ~MalformedTask(p)

\* C28: list_tasks and list_subtasks are order-preserving and
\* all-or-nothing: the returned sequence has the length of data and its
\* i-th entity is parsed from the i-th element; if any element fails
\* validation the operation fails and no partial list is returned.
C28_ListIsOrderedAndAllOrNothing ==
    listing.done =>
      IF \A i \in 1..Len(listing.data) : ValidElement(listing.data[i])
      THEN /\ listing.err = "none"
           /\ Len(listing.value) = Len(listing.data)
           /\ \A i \in 1..Len(listing.data) :
                /\ listing.value[i].cls = listing.data[i].cls
                /\ listing.value[i].title_len = listing.data[i].title_len
                /\ listing.value[i].status = listing.data[i].status
      ELSE /\ listing.err # "none"
           /\ listing.value = <<>>

\* a list of three whose last element fails, and nothing returned
C28_Witness ==
    /\ listing.done
    /\ Len(listing.data) = 3
    /\ ValidElement(listing.data[1])
    /\ ValidElement(listing.data[2])
    /\ ~ValidElement(listing.data[3])
    /\ listing.err # "none"
    /\ listing.value = <<>>

(* ================= the envelope of a successful response =============== *)

\* C27: the pipeline decides success or failure from the HTTP status alone:
\* a response with status below 400 is a success, its data parsed into an
\* entity or list or delete returning true, even when the envelope's status
\* field is "error" or an error object is present; the envelope's status is
\* never consulted.
C27_HttpStatusAloneDecides ==
    \A t \in Threads :
      (thr[t].pc = "done" /\ thr[t].resp.status < 400) =>
        /\ thr[t].outcome.kind = "return"
        /\ thr[t].outcome.value =
             CASE thr[t].op \in {"delete_task", "delete_subtask"} -> "True"
               [] thr[t].op \in {"list_tasks", "list_subtasks"}
                    -> "entity_list"
               [] OTHER -> "entity"

\* an operation that returned its entity from a 200 whose envelope says
\* error and carries an error object
C27_Witness ==
    /\ thr[1].pc = "done"
    /\ thr[1].op = "get_task"
    /\ thr[1].resp.status = 200
    /\ thr[1].resp.body.status = "error"
    /\ thr[1].resp.body.error = "present"
    /\ thr[1].outcome.kind = "return"
    /\ thr[1].outcome.value = "entity"

(* ========================= the error classes in use ==================== *)

\* an error of the given kind is constructed
Construct(kind, message, status_code, code) ==
    /\ thrown' = NewError(kind, message, status_code, code)
    /\ UNCHANGED <<non_auth_vars, handler, token, now, verdict>>

\* every kind, with a few messages and, for APIError, statuses and codes
NextErrors ==
    \E kind \in ErrorKinds,
       m \in {"Task not found", "Token has expired", "Rate limit exceeded",
              "boom"},
       sc \in ErrStatuses, c \in {"API_ERROR", "QUOTA"} :
        Construct(kind, m, sc, c)

\* nothing is in use and no error has been constructed when it starts
SpecErrors == InitEntity /\ [][NextErrors]_vars

(* C26: every error kind is a TaskMasterError; TokenExpiredError,
   InvalidTokenError and MissingCredentialsError are AuthenticationErrors
   with status 401; BadRequestError, NotFoundError, ConflictError,
   RateLimitError, ServerError and ServiceUnavailableError are APIErrors
   with status 400, 404, 409, 429, 500 and 503; no AuthenticationError is
   an APIError, and ValidationError is neither. *)
C26_ErrorHierarchy ==
    LET k == thrown.exc
        expected == [c \in {"BadRequestError", "NotFoundError",
                            "ConflictError", "RateLimitError", "ServerError",
                            "ServiceUnavailableError"} |->
                        CASE c = "BadRequestError" -> 400
                          [] c = "NotFoundError" -> 404
                          [] c = "ConflictError" -> 409
                          [] c = "RateLimitError" -> 429
                          [] c = "ServerError" -> 500
                          [] OTHER -> 503]
    IN  thrown # NoError =>
            /\ k \in ErrorKinds
            /\ IsA(k, "TaskMasterError")
            /\ k \in {"TokenExpiredError", "InvalidTokenError",
                      "MissingCredentialsError"} =>
                    IsA(k, "AuthenticationError") /\ thrown.status_code = 401
            /\ k \in DOMAIN expected =>
                    IsA(k, "APIError") /\ thrown.status_code = expected[k]
            /\ IsA(k, "AuthenticationError") => ~IsA(k, "APIError")
            /\ k = "ValidationError" =>
                    ~IsA(k, "AuthenticationError") /\ ~IsA(k, "APIError")

\* a rate-limit error has been constructed: an APIError and a
\* TaskMasterError with status 429
C26_Witness ==
    /\ thrown.exc = "RateLimitError"
    /\ thrown.status_code = 429
    /\ IsA(thrown.exc, "APIError")
    /\ ~IsA(thrown.exc, "AuthenticationError")

(* ============================ the JWT handler in use =================== *)

\* a handler for each secret, list of algorithms and verify flag; the
\* caller holds no token yet
InitJwt ==
    /\ client = [max_retries |-> 3, retry_backoff |-> 1]
    /\ PipelineIdle
    /\ EntityIdle
    /\ ObjectIdle
    /\ thrown = NoError
    /\ handler \in {JWTHandler(s, a, v) : s \in Secrets, a \in AlgorithmLists,
                                          v \in BOOLEAN}
    /\ token = NoToken
    /\ now = 0
    /\ verdict = NoVerdict

\* another handler is constructed and used from now on
NewHandler(s, a, v) ==
    /\ verdict = NoVerdict
    /\ handler' = JWTHandler(s, a, v)
    /\ UNCHANGED <<token, now, verdict>>
    /\ UNCHANGED <<non_auth_vars, thrown>>

\* the caller obtains a token from elsewhere
Present(tok) ==
    /\ verdict = NoVerdict
    /\ token' = tok
    /\ UNCHANGED <<handler, now, verdict>>
    /\ UNCHANGED <<non_auth_vars, thrown>>

\* handler.encode(claims, algorithm, expires_in); the caller keeps the token
Encode(claims, algorithm, expires_in) ==
    /\ verdict = NoVerdict
    /\ LET r == encode(handler, claims, algorithm, expires_in, now)
       IN  /\ token' = IF r.out.kind = "return" THEN r.token ELSE token
           /\ verdict' = Verdict("encode", "jwt.InvalidKeyError", r.out)
    /\ UNCHANGED <<handler, now>>
    /\ UNCHANGED <<non_auth_vars, thrown>>

\* handler.decode(token)
Decode(build) ==
    /\ verdict = NoVerdict
    /\ token # NoToken
    /\ verdict' = Verdict("decode", build, decode(handler, token, now, build))
    /\ UNCHANGED <<handler, token, now>>
    /\ UNCHANGED <<non_auth_vars, thrown>>

\* handler.is_expired(token)
IsExpired(build) ==
    /\ verdict = NoVerdict
    /\ token # NoToken
    /\ verdict' = Verdict("is_expired", build,
                          is_expired(handler, token, now, build))
    /\ UNCHANGED <<handler, token, now>>
    /\ UNCHANGED <<non_auth_vars, thrown>>

\* the caller is done with the outcome of the call
Forget ==
    /\ verdict # NoVerdict
    /\ verdict' = NoVerdict
    /\ UNCHANGED <<handler, token, now>>
    /\ UNCHANGED <<non_auth_vars, thrown>>

\* a second passes
Tick ==
    /\ verdict = NoVerdict
    /\ now < MaxTime
    /\ now' = now + 1
    /\ UNCHANGED <<handler, token, verdict>>
    /\ UNCHANGED <<non_auth_vars, thrown>>

NextJwt ==
    \/ \E s \in Secrets, a \in AlgorithmLists, v \in BOOLEAN :
            NewHandler(s, a, v)
    \/ \E tok \in PresentedTokens : Present(tok)
    \/ \E c \in ClaimSets, a \in TokenAlgorithms, e \in {0, 1, 0 - 1} :
            Encode(c, a, e)
    \/ \E b \in KeyFailures : Decode(b)
    \/ \E b \in KeyFailures : IsExpired(b)
    \/ Forget
    \/ Tick

SpecJwt == InitJwt /\ [][NextJwt]_vars

\* the token's signature was made with another key than the handler's
MismatchedSecret == token.form = "jwt" /\ token.key # handler.secret

(* C24: decode on a handler whose secret differs from the one the token was
   encoded with raises InvalidTokenError, unless the handler was created
   with verify off, and then it returns the token's claims; whenever decode
   raises, it raises TokenExpiredError or InvalidTokenError. *)
C24_DecodeFailsAsTokenError ==
    verdict.call = "decode" =>
        /\ MismatchedSecret /\ handler.verify =>
                /\ verdict.out.kind = "raise"
                /\ verdict.out.err.exc = "InvalidTokenError"
        /\ MismatchedSecret /\ ~handler.verify =>
                verdict.out = Returned(token.claims)
        /\ verdict.out.kind = "raise" =>
                verdict.out.err.exc \in {"TokenExpiredError",
                                         "InvalidTokenError"}

(* C25: is_expired never raises; it returns False exactly when the token
   decodes under full verification, and True for every decode failure. *)
C25_IsExpiredNeverRaises ==
    verdict.call = "is_expired" =>
        /\ verdict.out.kind = "return"
        /\ verdict.out.value = "False" <=>
                jwt_decode(token, handler.secret, handler.algorithms, TRUE,
                           now, verdict.build).err = "none"
        /\ verdict.out.value \in {"True", "False"}

\* the handler as it would be with the other verify setting
OtherVerify == [handler EXCEPT !.verify = ~@]

(* C30: is_expired ends the same way on two handlers that differ only in
   verify, for every token. *)
C30_IsExpiredIgnoresVerify ==
    verdict.call = "is_expired" =>
        verdict.out = is_expired(OtherVerify, token, now, verdict.build)

\* on a handler with verify off, is_expired has returned True for a token
\* with a foreign signature or a past expiry whose claims decode returns
C30_Witness ==
    /\ verdict.call = "is_expired"
    /\ ~handler.verify
    /\ verdict.out = Returned("True")
    /\ token.form = "jwt"
    /\ token.key # handler.secret \/ (token.has_exp /\ token.exp <= now)
    /\ decode(handler, token, now, verdict.build) = Returned(token.claims)

====
